---- MODULE Spec2Model ----
(***************************************************************************)
(* Model of src/app.py: the two-stage OTTO recommender pipeline            *)
(* (candidate generation from a co-visitation index plus a fallback list,  *)
(* a four-column feature table, three scoring models, top-20 ranking).      *)
(*                                                                         *)
(* Python values are represented as follows.                               *)
(*   list            a sequence                                            *)
(*   dict            a function; dict.get is DictGet                       *)
(*   Counter         a sequence of <<key, count>> pairs in insertion order *)
(*                   (most_common is a stable sort on it)                  *)
(*   str             a sequence of one-character strings                   *)
(*   event           its 'aid' (the only field the pipeline reads)         *)
(***************************************************************************)
EXTENDS Integers, Sequences, FiniteSets, TLC

\* ---------------------------------------------------------------- constants
N_ITEMS_FROM_HISTORY == 5
N_CO_VISITS_PER_ITEM == 40
N_CANDIDATES_PER_SESSION == 200
\* the literal 20 of get_top_20_recs
TOP_N == 20
\* the number of entries of one row of X_test_session_list
N_FEATURES == 4

EventTypes == {"clicks", "carts", "orders"}

\* ---------------------------------------------------------- Python helpers
Min(a, b) == IF a <= b THEN a ELSE b

Range(s) == {s[i] : i \in 1..Len(s)}

\* a list built by a comprehension or a loop of appends, with all its entries
\* computed when it is built
List(f) == SubSeq(f, 1, Len(f))

\* TLC computes the value of a definition where it is first used.  A pass over
\* a list is split in two halves below; asking for the first half's result
\* before the second half starts keeps the evaluation shallow.
Computed(v) == v = v

\* s[:n]
Take(s, n) == SubSeq(s, 1, Min(n, Len(s)))

\* s[-n:]
LastN(s, n) == IF Len(s) <= n THEN s ELSE SubSeq(s, Len(s) - n + 1, Len(s))

\* list(dict.fromkeys(s)): drop every occurrence but the first
DictFromKeys(s) ==
    LET indexed == List([i \in 1..Len(s) |-> <<i, s[i]>>])
        first == SelectSeq(indexed,
                           LAMBDA p : \A j \in 1..(p[1] - 1) : s[j] # p[2])
    IN List([k \in 1..Len(first) |-> first[k][2]])

\* d.get(k, default)
DictGet(d, k, default) == IF k \in DOMAIN d THEN d[k] ELSE default

\* Counter(): the empty counter
EmptyCounter == <<>>

\* c.get(k, default) on a Counter
CounterGet(c, k, default) ==
    IF \E i \in 1..Len(c) : c[i][1] = k
    THEN c[CHOOSE i \in 1..Len(c) : c[i][1] = k][2]
    ELSE default

\* c[k] += n on a Counter: an existing key keeps its position, a new key is
\* appended
CounterAdd(c, k, n) ==
    IF \E i \in 1..Len(c) : c[i][1] = k
    THEN LET i == CHOOSE j \in 1..Len(c) : c[j][1] = k
         IN [c EXCEPT ![i] = <<k, c[i][2] + n>>]
    ELSE Append(c, <<k, n>>)

\* Counter(list): count the occurrences, keys in first-seen order
RECURSIVE CounterOf(_)
CounterOf(s) ==
    IF s = <<>> THEN EmptyCounter
    ELSE CounterAdd(CounterOf(SubSeq(s, 1, Len(s) - 1)), s[Len(s)], 1)

\* insert pair p into a list sorted by count, descending, behind every entry
\* whose count is not smaller (so that equal counts keep their order)
InsertByCount(sorted, p) ==
    LET pos == Cardinality({i \in 1..Len(sorted) : sorted[i][2] >= p[2]})
    IN SubSeq(sorted, 1, pos) \o <<p>> \o SubSeq(sorted, pos + 1, Len(sorted))

\* The loops and sorts below run over lists of up to a few hundred entries.
\* Each is written as a left-to-right pass over the index range lo..hi that
\* splits the range in two, which applies the same steps in the same order as
\* the pass entry by entry.
RECURSIVE SortByCountRange(_, _, _, _)
SortByCountRange(sorted, c, lo, hi) ==
    IF lo > hi THEN sorted
    ELSE IF lo = hi THEN InsertByCount(sorted, c[lo])
    ELSE LET mid == (lo + hi) \div 2
             left == SortByCountRange(sorted, c, lo, mid)
         IN IF Computed(left) THEN SortByCountRange(left, c, mid + 1, hi) ELSE left

\* the pairs of c sorted by count, descending, stably
SortByCount(c) == SortByCountRange(<<>>, c, 1, Len(c))

\* c.most_common(n): the n entries of largest count, largest first, entries of
\* equal count in insertion order
MostCommon(c, n) == Take(SortByCount(c), n)


\* Variants of single definitions follow the pattern X_Variant, each placed
\* before the definition X it differs from; a property that is sensitive to X
\* fails when X is replaced by its variant.

\* variant: tuples compared by their score alone (a sort with key=score)
TupleGE_ScoreOnly(a, b) == a[1] >= b[1]

\* insert the tuple p = <<score, aid>> into a list sorted descending, tuples
\* compared as Python compares them: first entries first, then second entries
TupleGE(a, b) == a[1] > b[1] \/ (a[1] = b[1] /\ a[2] >= b[2])

InsertTuple(sorted, p) ==
    LET pos == Cardinality({i \in 1..Len(sorted) : TupleGE(sorted[i], p)})
    IN SubSeq(sorted, 1, pos) \o <<p>> \o SubSeq(sorted, pos + 1, Len(sorted))

RECURSIVE SortedReverseRange(_, _, _, _)
SortedReverseRange(sorted, pairs, lo, hi) ==
    IF lo > hi THEN sorted
    ELSE IF lo = hi THEN InsertTuple(sorted, pairs[lo])
    ELSE LET mid == (lo + hi) \div 2
             left == SortedReverseRange(sorted, pairs, lo, mid)
         IN IF Computed(left) THEN SortedReverseRange(left, pairs, mid + 1, hi)
            ELSE left

\* sorted(pairs, reverse=True)
SortedReverse(pairs) == SortedReverseRange(<<>>, pairs, 1, Len(pairs))

\* zip(a, b): as long as the shorter of the two
Zip(a, b) == List([i \in 1..Min(Len(a), Len(b)) |-> <<a[i], b[i]>>])

\* str(n) of a non-negative integer
Digit(d) == <<"0", "1", "2", "3", "4", "5", "6", "7", "8", "9">>[d + 1]

RECURSIVE Str(_)
Str(n) == IF n < 10 THEN <<Digit(n)>> ELSE Append(Str(n \div 10), Digit(n % 10))

\* " ".join(map(str, aids[lo..hi]))
RECURSIVE JoinRange(_, _, _)
JoinRange(aids, lo, hi) ==
    IF lo > hi THEN <<>>
    ELSE IF lo = hi THEN Str(aids[lo])
    ELSE LET mid == (lo + hi) \div 2
         IN JoinRange(aids, lo, mid) \o <<" ">> \o JoinRange(aids, mid + 1, hi)

\* " ".join(map(str, aids))
JoinStr(aids) == JoinRange(aids, 1, Len(aids))

\* ------------------------------------------------------ get_top_20_recs
\* [aid for _, aid in sorted(zip(scores, candidates), reverse=True)]
RankedCandidates(scores, candidates) ==
    LET ranked == SortedReverse(Zip(scores, candidates))
    IN List([i \in 1..Len(ranked) |-> ranked[i][2]])

\* variant: top_20.extend(fallback), without the membership test
ExtendWithFallback_Unfiltered(top_20, fallback) == top_20 \o fallback

\* top_20.extend([aid for aid in fallback if aid not in top_20]); the list
\* comprehension is evaluated against top_20 as it is before the extend
ExtendWithFallback(top_20, fallback) ==
    top_20 \o SelectSeq(fallback, LAMBDA aid : aid \notin Range(top_20))

get_top_20_recs(scores, candidates, fallback) ==
    LET ranked_candidates == RankedCandidates(scores, candidates)
        top_20 == Take(ranked_candidates, TOP_N)
    IN IF Len(top_20) < TOP_N
       THEN Take(ExtendWithFallback(top_20, fallback), TOP_N)
       ELSE top_20

\* ----------------------------------------- Stage 1: candidate generation
\* variant: line 137 without its condition
Recommendable_Always(co_aid, history_aids_set) == TRUE

\* line 137: an item of the session's history is not recommended
Recommendable(co_aid, history_aids_set) == co_aid \notin history_aids_set

\* one pass of the inner loop, lines 137-138
AddCoVisit(pool, pair, history_aids_set) ==
    IF Recommendable(pair[1], history_aids_set)
    THEN CounterAdd(pool, pair[1], pair[2])
    ELSE pool

RECURSIVE AddCoVisitsRange(_, _, _, _, _)
AddCoVisitsRange(pool, top_co_visited, history_aids_set, lo, hi) ==
    IF lo > hi THEN pool
    ELSE IF lo = hi THEN AddCoVisit(pool, top_co_visited[lo], history_aids_set)
    ELSE LET mid == (lo + hi) \div 2
             left == AddCoVisitsRange(pool, top_co_visited, history_aids_set, lo, mid)
         IN IF Computed(left)
            THEN AddCoVisitsRange(left, top_co_visited, history_aids_set, mid + 1, hi)
            ELSE left

\* the inner loop of lines 136-138 over one seed's top co-visited items
AddCoVisits(pool, top_co_visited, history_aids_set) ==
    AddCoVisitsRange(pool, top_co_visited, history_aids_set, 1, Len(top_co_visited))

\* co_visitation_map.get(aid, Counter()).most_common(N_CO_VISITS_PER_ITEM)
TopCoVisited(co_map, aid) ==
    MostCommon(DictGet(co_map, aid, EmptyCounter), N_CO_VISITS_PER_ITEM)

\* the outer loop of lines 134-138; seeds is set(history_aids_recent) in the
\* order the iteration visits it
RECURSIVE SessionCandidatePool(_, _, _)
SessionCandidatePool(seeds, co_map, history_aids_set) ==
    IF seeds = <<>> THEN EmptyCounter
    ELSE LET pool == SessionCandidatePool(SubSeq(seeds, 1, Len(seeds) - 1),
                                          co_map, history_aids_set)
             top_co_visited == TopCoVisited(co_map, seeds[Len(seeds)])
         IN IF Computed(pool) /\ Computed(top_co_visited)
            THEN AddCoVisits(pool, top_co_visited, history_aids_set)
            ELSE pool

\* [aid for aid, score in session_candidate_pool.most_common(N_CANDIDATES_PER_SESSION)]
DynamicCandidates(session_candidate_pool) ==
    LET top == MostCommon(session_candidate_pool, N_CANDIDATES_PER_SESSION)
    IN List([i \in 1..Len(top) |-> top[i][1]])

\* variant: dynamic_candidates + top_20_fallback, not deduplicated
MergeCandidates_NoDedup(dynamic, fallback) == dynamic \o fallback

\* list(dict.fromkeys(dynamic_candidates + top_20_fallback))
MergeCandidates(dynamic, fallback) == DictFromKeys(dynamic \o fallback)

\* lines 142-143
FinalCandidateList(dynamic, fallback) ==
    Take(MergeCandidates(dynamic, fallback), N_CANDIDATES_PER_SESSION)

\* ------------------------------------------------ Stage 2: feature table
\* the loop of lines 162-164 over history_aids_set
RECURSIVE CoVisitScore(_, _, _)
CoVisitScore(history_aids_set, co_map, candidate_aid) ==
    IF history_aids_set = {} THEN 0
    ELSE LET history_aid == CHOOSE h \in history_aids_set : TRUE
         IN CounterGet(DictGet(co_map, history_aid, EmptyCounter), candidate_aid, 0)
            + CoVisitScore(history_aids_set \ {history_aid}, co_map, candidate_aid)

\* variant: the co-visitation score summed over the seed window
\* (history_aids_recent) instead of history_aids_set
Features_RecentOnly(candidate_aid, events, co_map, popularity) ==
    <<CoVisitScore(Range(LastN(events, N_ITEMS_FROM_HISTORY)), co_map, candidate_aid),
      DictGet(popularity, candidate_aid, 0),
      Len(events),
      CounterGet(CounterOf(events), candidate_aid, 0)>>

\* one row of X_test_session_list, lines 162-180
Features(candidate_aid, events, co_map, popularity) ==
    LET co_visit_score == CoVisitScore(Range(events), co_map, candidate_aid)
        global_pop == DictGet(popularity, candidate_aid, 0)
        session_len == Len(events)
        history_clicks == CounterGet(CounterOf(events), candidate_aid, 0)
    IN <<co_visit_score, global_pop, session_len, history_clicks>>

FeatureTable(candidates, events, co_map, popularity) ==
    List([i \in 1..Len(candidates) |->
             Features(candidates[i], events, co_map, popularity)])


\* ------------------------------------------------------- scoring models
\* The column names the feature rows of lines 175-180 stand for (line 76).
BUILDER_COLUMNS ==
    <<"co_visitation_score", "global_popularity", "session_length",
      "history_clicks_on_candidate">>

\* A scoring model is a frozen function of one feature row, here a linear one,
\* with the feature names it was trained with:
\*   [feature_name |-> <<...>>, w |-> <<w1, w2, w3, w4>>]
RowScore(model, row) ==
    LET n == Min(Len(model.w), Len(row))
        Partial[i \in 0..n] ==
            IF i = 0 THEN 0 ELSE Partial[i - 1] + model.w[i] * row[i]
    IN Partial[n]

\* model.predict(X_df): one score per row
Predict(model, X) == List([i \in 1..Len(X) |-> RowScore(model, X[i])])

\* predict raises when the table's column count is not the model's
PredictRaises(model) == Len(model.feature_name) # N_FEATURES

\* pd.DataFrame(rows, columns=FEATURE_NAMES, index=...) raises ValueError when
\* there are rows and their width is not the number of column names
DataFrameRaises(rows, columns) == rows # <<>> /\ Len(columns) # N_FEATURES

\* variant: d.setdefault(k, Counter()), which a defaultdict's d[k] also does
DictAfterGet_SetDefault(d, k) ==
    IF k \in DOMAIN d THEN d ELSE d @@ (k :> EmptyCounter)

\* dict.get leaves the dict as it is
DictAfterGet(d, k) == d

\* the dict after d.get(k, ...) for each k of keys[lo..hi]
RECURSIVE DictAfterGetsRange(_, _, _, _)
DictAfterGetsRange(d, keys, lo, hi) ==
    IF lo > hi THEN d
    ELSE IF lo = hi THEN DictAfterGet(d, keys[lo])
    ELSE LET mid == (lo + hi) \div 2
             left == DictAfterGetsRange(d, keys, lo, mid)
         IN IF Computed(left) THEN DictAfterGetsRange(left, keys, mid + 1, hi)
            ELSE left

DictAfterGets(d, keys) == DictAfterGetsRange(d, keys, 1, Len(keys))

\* every order of the elements of S
RECURSIVE AllOrders(_)
AllOrders(S) ==
    IF S = {} THEN {<<>>}
    ELSE UNION {{Append(p, x) : p \in AllOrders(S \ {x})} : x \in S}

\* the elements of a set of integers in ascending order
RECURSIVE Ascending(_)
Ascending(S) ==
    IF S = {} THEN <<>>
    ELSE LET m == CHOOSE x \in S : \A y \in S : x >= y
         IN Append(Ascending(S \ {m}), m)

Reverse(s) == List([i \in 1..Len(s) |-> s[Len(s) + 1 - i]])

Rotations(s) ==
    {SubSeq(s, k + 1, Len(s)) \o SubSeq(s, 1, k) : k \in 0..(Len(s) - 1)}

\* ------------------------------------------------------------ the inputs
MaxEvents == 3
MaxRuns == 2
MaxShuffle == 3

\* The orders in which `for aid in set(...)` (line 134) is taken to visit the
\* set: the language fixes none.  Every order is tried for sets of up to
\* MaxShuffle aids; larger sets are visited in the rotations of the ascending
\* order and in descending order.
Orderings(S) ==
    IF Cardinality(S) <= MaxShuffle THEN AllOrders(S)
    ELSE Rotations(Ascending(S)) \cup {Reverse(Ascending(S))}
MaxFallback == 21

SessionItems == {10, 20, 30}

RECURSIVE SeqsUpTo(_, _)
SeqsUpTo(S, n) ==
    IF n = 0 THEN {<<>>}
    ELSE LET shorter == SeqsUpTo(S, n - 1)
         IN shorter \cup {Append(s, x) : s \in shorter, x \in S}

\* sessions longer than the seed window, and sessions over the keys of WideMap
LongSessions ==
    {<<30, 10, 20, 10, 20, 10>>, <<1, 2, 3, 4, 5>>, <<5, 1, 2, 3, 4, 6>>,
     <<6, 1, 2, 3, 4, 5>>}

\* the sessions tried against an index: the short ones, and the long ones that
\* hold a key of the index
Sessions(co_map) ==
    SeqsUpTo(SessionItems, MaxEvents)
    \cup {s \in LongSessions : Range(s) \cap DOMAIN co_map # {}}

\* the predict calls made to raise: none, one, or all
FailChoices == {{}, EventTypes} \cup {{e} : e \in EventTypes}

\* co-visitation indexes
EmptyMap == <<>>

ScenarioMap == (10 :> <<<<20, 5>>, <<30, 3>>>>) @@ (20 :> <<<<10, 2>>, <<40, 1>>>>)

TieMap ==
    (10 :> <<<<40, 2>>, <<50, 2>>, <<60, 1>>>>)
    @@ (20 :> <<<<60, 1>>, <<50, 2>>, <<30, 4>>>>)
    @@ (30 :> <<<<70, 2>>, <<10, 9>>>>)

\* keys 1..6, each with more co-visited items than N_CO_VISITS_PER_ITEM except
\* key 6; the items of different keys are different
WideCounter(h) ==
    List([k \in 1..(IF h = 6 THEN 30 ELSE 45) |->
             <<100 + 45 * (h - 1) + k, 1 + ((k * 7) % 5)>>])

WideMap == List([h \in 1..6 |-> WideCounter(h)])

CoMaps == {EmptyMap, ScenarioMap, TieMap, WideMap}

\* popularity tables
EmptyPop == <<>>
ScenarioPop == (10 :> 100) @@ (20 :> 50) @@ (30 :> 10) @@ (40 :> 5)
Pops == {EmptyPop, ScenarioPop}

\* fallback lists: prefixes of 10, 20, 30, ...
FallbackOfLen(n) == List([i \in 1..n |-> 10 * i])
Fallbacks == {FallbackOfLen(n) : n \in {0, 3, 15, TOP_N, MaxFallback}}

\* model files
ShortColumns == SubSeq(BUILDER_COLUMNS, 1, 3)
SwappedColumns ==
    <<"global_popularity", "co_visitation_score", "session_length",
      "history_clicks_on_candidate">>

Model(names, w) == [feature_name |-> names, w |-> w]

ModelsOf(n1, n2, n3) ==
    [clicks |-> Model(n1, <<1, 0, 0, 0>>),
     carts |-> Model(n2, <<-1, 1, 0, 2>>),
     orders |-> Model(n3, <<0, 0, 1, 0>>)]

RegularModels == ModelsOf(BUILDER_COLUMNS, BUILDER_COLUMNS, BUILDER_COLUMNS)

MismatchedModels ==
    {ModelsOf(BUILDER_COLUMNS, SwappedColumns, BUILDER_COLUMNS),
     ModelsOf(ShortColumns, BUILDER_COLUMNS, BUILDER_COLUMNS),
     ModelsOf(BUILDER_COLUMNS, BUILDER_COLUMNS, ShortColumns)}

\* what the six asset files hold
AssetFiles ==
    {a \in [co : CoMaps, fb : Fallbacks, pop : Pops,
            models : {RegularModels} \cup MismatchedModels] :
        /\ a.models \in MismatchedModels =>
              a.co = ScenarioMap /\ a.pop = ScenarioPop /\ Len(a.fb) = TOP_N
        /\ a.co = WideMap => a.pop = EmptyPop /\ Len(a.fb) >= TOP_N}


\* ------------------------------------------------------------- the state
VARIABLES
    phase,                      \* where the script is: "start"; "ready" (line 96
                                \* returned, the button not yet pressed);
                                \* "displayed" (lines 255-264 showed a call's
                                \* outcome); "stopped" (st.stop())
    n_runs,                     \* run_model_pipeline calls since the assets were loaded
    models,                     \* the module globals of line 96
    global_popularity_counter,
    co_visitation_map,
    top_20_fallback,
    FEATURE_NAMES,
    events,                     \* session_data["events"] of the last call
    dynamic_candidates,         \* locals of the last run_model_pipeline call
    final_candidate_list,
    X_test_session_list,
    raising,                    \* the models whose predict call raises when called
    scores,                     \* scores_clicks, scores_carts, scores_orders
    results,                    \* the dict the last call returned
    outcome,                    \* "none", "returned", "raised"
    st_error,                   \* what st.error showed in the last step
    rk_scores,                  \* the arguments of a direct call of
    rk_candidates,              \* get_top_20_recs,
    rk_fallback,
    rk_called,                  \* whether the call was made,
    rk_top_20                   \* and what it returned

assets == <<models, global_popularity_counter, co_visitation_map, top_20_fallback,
            FEATURE_NAMES>>
run == <<events, dynamic_candidates, final_candidate_list, X_test_session_list,
         raising, scores, results, outcome>>
rk == <<rk_scores, rk_candidates, rk_fallback, rk_called, rk_top_20>>
vars == <<phase, n_runs, assets, run, st_error, rk>>

NoRun ==
    /\ events = <<>>
    /\ dynamic_candidates = <<>>
    /\ final_candidate_list = <<>>
    /\ X_test_session_list = <<>>
    /\ raising = {}
    /\ scores = <<>>
    /\ results = <<>>
    /\ outcome = "none"

NoRank ==
    /\ rk_scores = <<>>
    /\ rk_candidates = <<>>
    /\ rk_fallback = <<>>
    /\ rk_called = FALSE
    /\ rk_top_20 = <<>>

NotLoaded ==
    /\ phase = "start"
    /\ n_runs = 0
    /\ models = <<>>
    /\ global_popularity_counter = <<>>
    /\ co_visitation_map = <<>>
    /\ top_20_fallback = <<>>
    /\ FEATURE_NAMES = <<>>
    /\ NoRun
    /\ st_error = <<>>

Init == NotLoaded /\ NoRank

\* --------------------------------------------------------- load_all_assets
\* Line 96 on a script run; st.cache_resource keeps the result of a call that
\* returned, so the body runs again only while no call has returned.
\* present: whether every file is on disk and loads.
load_all_assets ==
    /\ phase \in {"start", "stopped"}
    /\ \E a \in AssetFiles, present \in BOOLEAN :
          IF present
          THEN /\ models' = a.models
               /\ global_popularity_counter' = a.pop
               /\ co_visitation_map' = a.co
               /\ top_20_fallback' = a.fb
               /\ FEATURE_NAMES' = a.models["clicks"].feature_name
               /\ phase' = "ready"
               /\ st_error' = <<>>
          ELSE /\ UNCHANGED assets
               /\ phase' = "stopped"
               /\ st_error' = <<"load">>
    /\ UNCHANGED <<n_runs, run, rk>>

\* ------------------------------------------------------ run_model_pipeline
\* lines 121-126 and 147-152
FallbackOnly(fallback) ==
    LET fallback_str == JoinStr(fallback)
    IN [clicks |-> fallback_str, carts |-> fallback_str, orders |-> fallback_str]

\* the models whose predict call raises: those the caller's fault injection
\* names and those that reject the table
Raising(fails) == fails \cup {e \in EventTypes : PredictRaises(models[e])}

\* lines 196-198
PredictAll(X) ==
    [clicks |-> Predict(models.clicks, X),
     carts |-> Predict(models.carts, X),
     orders |-> Predict(models.orders, X)]

\* lines 205-213
RankAll(sc, candidates, fallback) ==
    LET top_20_clicks == get_top_20_recs(sc.clicks, candidates, fallback)
        top_20_carts == get_top_20_recs(sc.carts, candidates, fallback)
        top_20_orders == get_top_20_recs(sc.orders, candidates, fallback)
    IN [clicks |-> JoinStr(top_20_clicks),
        carts |-> JoinStr(top_20_carts),
        orders |-> JoinStr(top_20_orders)]

run_model_pipeline ==
    /\ phase = "ready"
    /\ n_runs < MaxRuns
    /\ n_runs' = n_runs + 1
    /\ phase' = "displayed"
    /\ \E session_events \in Sessions(co_visitation_map) :
        /\ events' = session_events
        /\ IF session_events = <<>>
           THEN /\ results' = FallbackOnly(top_20_fallback)
                /\ outcome' = "returned"
                /\ st_error' = <<>>
                /\ raising' = {}
                /\ dynamic_candidates' = <<>>
                /\ final_candidate_list' = <<>>
                /\ X_test_session_list' = <<>>
                /\ scores' = <<>>
                /\ UNCHANGED <<co_visitation_map, global_popularity_counter>>
           ELSE LET history_aids == session_events
                    history_aids_set == Range(history_aids)
                    history_aids_recent == LastN(history_aids, N_ITEMS_FROM_HISTORY)
                IN \E seeds \in Orderings(Range(history_aids_recent)) :
                    /\ dynamic_candidates' =
                          DynamicCandidates(
                              SessionCandidatePool(seeds, co_visitation_map,
                                                   history_aids_set))
                    /\ final_candidate_list' =
                          FinalCandidateList(dynamic_candidates', top_20_fallback)
                    /\ IF final_candidate_list' = <<>>
                       THEN /\ results' = FallbackOnly(top_20_fallback)
                            /\ outcome' = "returned"
                            /\ st_error' = <<>>
                            /\ raising' = {}
                            /\ X_test_session_list' = <<>>
                            /\ scores' = <<>>
                            /\ co_visitation_map' =
                                  DictAfterGets(co_visitation_map, seeds)
                            /\ UNCHANGED global_popularity_counter
                       ELSE /\ X_test_session_list' =
                                  FeatureTable(final_candidate_list', session_events,
                                               co_visitation_map,
                                               global_popularity_counter)
                            /\ co_visitation_map' =
                                  DictAfterGets(co_visitation_map,
                                                seeds \o history_aids)
                            /\ global_popularity_counter' =
                                  DictAfterGets(global_popularity_counter,
                                                final_candidate_list')
                            /\ IF DataFrameRaises(X_test_session_list', FEATURE_NAMES)
                               THEN /\ results' = <<>>
                                    /\ outcome' = "raised"
                                    /\ st_error' = <<>>
                                    /\ raising' = {}
                                    /\ scores' = <<>>
                               ELSE \E fails \in FailChoices :
                                  /\ raising' = Raising(fails)
                                  /\ IF raising' # {}
                                     THEN /\ results' = <<>>
                                          /\ outcome' = "returned"
                                          /\ st_error' = <<"Error during prediction">>
                                          /\ scores' = <<>>
                                     ELSE /\ scores' =
                                                PredictAll(X_test_session_list')
                                          /\ results' =
                                                RankAll(scores', final_candidate_list',
                                                        top_20_fallback)
                                          /\ outcome' = "returned"
                                          /\ st_error' = <<>>
    /\ UNCHANGED <<models, top_20_fallback, FEATURE_NAMES, rk>>

\* The script run ends after showing the outcome (lines 255-264, or the
\* uncaught exception); the next run of the script starts with the cached
\* assets and none of the call's locals.
script_rerun ==
    /\ phase = "displayed"
    /\ phase' = "ready"
    /\ events' = <<>>
    /\ dynamic_candidates' = <<>>
    /\ final_candidate_list' = <<>>
    /\ X_test_session_list' = <<>>
    /\ raising' = {}
    /\ scores' = <<>>
    /\ results' = <<>>
    /\ outcome' = "none"
    /\ st_error' = <<>>
    /\ UNCHANGED <<n_runs, assets, rk>>

Next == load_all_assets \/ run_model_pipeline \/ script_rerun

Spec == Init /\ [][Next]_vars


\* ------------------------------------------- get_top_20_recs called directly
MaxPool == 22

\* scores given to a pool as a function of the aid: all equal, repeating with
\* a short period, negative, all different
ScorePatterns == {<<0, 1>>, <<1, 3>>, <<-2, 7>>, <<1, 1000>>}
PatternScore(pat, aid) == pat[1] * ((aid \div 5) % pat[2])

\* pools 5, 10, 15, ... (every second aid is one of the fallback lists'),
\* ascending, descending and rotated
LongPools ==
    UNION {LET up == List([i \in 1..n |-> 5 * i])
           IN {up, Reverse(up), SubSeq(up, 8, n) \o SubSeq(up, 1, 7)} :
           n \in {TOP_N - 1, TOP_N, TOP_N + 1, MaxPool}}

\* every pool of up to three different aids of {10, 20, 35}
ShortPools == {s \in SeqsUpTo({10, 20, 35}, 3) : Cardinality(Range(s)) = Len(s)}

RankInputs ==
    {[candidates |-> c,
      scores |-> List([i \in 1..Len(c) |-> PatternScore(pat, c[i])]),
      fallback |-> fb] : c \in LongPools, pat \in ScorePatterns, fb \in Fallbacks}
    \cup
    {[candidates |-> c, scores |-> sc, fallback |-> fb] :
        c \in ShortPools, sc \in SeqsUpTo({0, 1}, 3), fb \in Fallbacks}

InitRank ==
    /\ NotLoaded
    /\ \E in \in RankInputs :
          /\ Len(in.scores) = Len(in.candidates)
          /\ rk_scores = in.scores
          /\ rk_candidates = in.candidates
          /\ rk_fallback = in.fallback
    /\ rk_called = FALSE
    /\ rk_top_20 = <<>>

call_get_top_20_recs ==
    /\ ~rk_called
    /\ rk_called' = TRUE
    /\ rk_top_20' = get_top_20_recs(rk_scores, rk_candidates, rk_fallback)
    /\ UNCHANGED <<phase, n_runs, assets, run, st_error, rk_scores, rk_candidates,
                   rk_fallback>>

NextRank == call_get_top_20_recs

SpecRank == InitRank /\ [][NextRank]_vars


\* ===================================================================== claims
\* Reading a returned string back as the list of aids it lists (str.split and
\* int of each token).
DigitValue(c) == CHOOSE d \in 0..9 : Digit(d) = c

RECURSIVE ParseInt(_)
ParseInt(t) ==
    IF t = <<>> THEN 0
    ELSE 10 * ParseInt(SubSeq(t, 1, Len(t) - 1)) + DigitValue(t[Len(t)])

\* str.split(): the maximal runs of characters other than the space
SplitStr(str) ==
    LET starts == {i \in 1..Len(str) :
                      str[i] # " " /\ (i = 1 \/ str[i - 1] = " ")}
        StartOf(k) == CHOOSE i \in starts :
                         Cardinality({j \in starts : j <= i}) = k
        EndOf(i) == CHOOSE j \in i..Len(str) :
                       /\ \A m \in i..j : str[m] # " "
                       /\ (j = Len(str) \/ str[j + 1] = " ")
    IN List([k \in 1..Cardinality(starts) |->
                 SubSeq(str, StartOf(k), EndOf(StartOf(k)))])

AidsOf(str) ==
    LET toks == SplitStr(str) IN List([i \in 1..Len(toks) |-> ParseInt(toks[i])])

\* the recommendation list the last call returned for event type e
RecList(e) == AidsOf(results[e])

\* the last call returned a list for event type e
Returned(e) == phase = "displayed" /\ outcome = "returned" /\ e \in DOMAIN results

NoDuplicates(s) == \A i, j \in 1..Len(s) : s[i] = s[j] => i = j

\* C1: every recommendation list run_model_pipeline returns has at most 20 item
\* ids, and exactly 20 whenever the FallbackList has at least 20 entries.
C1_AtMostTwenty ==
    \A e \in EventTypes :
        Returned(e) =>
            /\ Len(RecList(e)) <= TOP_N
            /\ Len(top_20_fallback) >= TOP_N => Len(RecList(e)) = TOP_N

\* C2: for a session with no events the three returned lists are the same
\* list, the first 20 entries of the FallbackList in FallbackList order.
C2_EmptySessionFirstTwenty ==
    (phase = "displayed" /\ events = <<>>) =>
        \A e \in EventTypes :
            /\ Returned(e)
            /\ results[e] = results["clicks"]
            /\ RecList(e) = Take(top_20_fallback, TOP_N)

\* C3: when the scoring call of exactly one model raises on a non-empty
\* session, the other two event types' lists are returned as they would be
\* without the failure, the failing event type's list is empty and an error is
\* reported.
C3_FailureIsolated ==
    (phase = "displayed" /\ events # <<>> /\ Cardinality(raising) = 1) =>
        /\ st_error # <<>>
        /\ \A e \in EventTypes :
              /\ Returned(e)
              /\ e \in raising => RecList(e) = <<>>
              /\ e \notin raising =>
                    RecList(e) =
                       get_top_20_recs(Predict(models[e], X_test_session_list),
                                       final_candidate_list, top_20_fallback)

\* C4: for a non-empty session no dynamic candidate is an item of the
\* session's history, and every item of a returned list that occurs in the
\* history is a member of the FallbackList.
C4_HistoryOnlyViaFallback ==
    (phase = "displayed" /\ events # <<>>) =>
        /\ Range(dynamic_candidates) \cap Range(events) = {}
        /\ \A e \in EventTypes :
              Returned(e) =>
                 (Range(RecList(e)) \cap Range(events)) \subseteq Range(top_20_fallback)

\* C4 witness: a co-visited item of a seed was left out because it is in the
\* history, other items became dynamic candidates, and a returned list holds a
\* history item that the fallback brought in.
C4_Witness ==
    /\ phase = "displayed"
    /\ dynamic_candidates # <<>>
    /\ \E h \in Range(LastN(events, N_ITEMS_FROM_HISTORY)) :
          \E p \in Range(DictGet(co_visitation_map, h, EmptyCounter)) :
             p[1] \in Range(events)
    /\ \E e \in EventTypes :
          Returned(e) /\ Range(RecList(e)) \cap Range(events) # {}

\* C5: the candidate pool of Stage 1 holds no item id twice, has at most
\* N_CANDIDATES_PER_SESSION entries, and starts with the dynamic candidates.
C5_PoolDistinctBoundedPrefixed ==
    (phase = "displayed" /\ events # <<>>) =>
        /\ NoDuplicates(final_candidate_list)
        /\ Len(final_candidate_list) <= N_CANDIDATES_PER_SESSION
        /\ Len(dynamic_candidates) <= Len(final_candidate_list)
        /\ SubSeq(final_candidate_list, 1, Len(dynamic_candidates)) = dynamic_candidates
        /\ Range(final_candidate_list) \subseteq
              Range(dynamic_candidates) \cup Range(top_20_fallback)

\* C5 witness: dynamic candidates and FallbackList share an item, together
\* they are more than N_CANDIDATES_PER_SESSION different items, and part of
\* the FallbackList made it into the pool.
C5_Witness ==
    /\ phase = "displayed"
    /\ Range(dynamic_candidates) \cap Range(top_20_fallback) # {}
    /\ Cardinality(Range(dynamic_candidates) \cup Range(top_20_fallback))
          > N_CANDIDATES_PER_SESSION
    /\ Len(final_candidate_list) = N_CANDIDATES_PER_SESSION
    /\ Len(dynamic_candidates) < Len(final_candidate_list)

\* C6: a scoring model whose declared feature names differ in count or order
\* from the Feature Builder's columns stops initialization, so no session is
\* processed with such a model loaded.
ModelsMatchBuilder == \A e \in EventTypes : models[e].feature_name = BUILDER_COLUMNS

C6_MismatchStopsSetup == phase = "displayed" => ModelsMatchBuilder

\* C7: for a non-empty session the feature rows are, in pool order,
\* [sum over the distinct history items h of the weight from h to c,
\*  popularity of c, number of events, occurrences of c among the events],
\* absent entries counting 0; in the scenario of the specification candidate
\* 30 gets [3, 10, 3, 0]; an absent entry never makes the call raise.
WeightFromTo(h, c) ==
    IF h \in DOMAIN co_visitation_map
       /\ \E p \in Range(co_visitation_map[h]) : p[1] = c
    THEN (CHOOSE p \in Range(co_visitation_map[h]) : p[1] = c)[2]
    ELSE 0

\* the sum of the weights, as the size of a set of (history item, unit) pairs
TotalWeightTo(c) ==
    Cardinality(UNION {{<<h, k>> : k \in 1..WeightFromTo(h, c)} : h \in Range(events)})

Occurrences(c) == Cardinality({i \in 1..Len(events) : events[i] = c})

PopularityOf(c) ==
    IF c \in DOMAIN global_popularity_counter THEN global_popularity_counter[c] ELSE 0

C7_FeatureRows ==
    (phase = "displayed" /\ events # <<>>) =>
        /\ final_candidate_list # <<>> =>
              /\ Len(X_test_session_list) = Len(final_candidate_list)
              /\ \A i \in 1..Len(final_candidate_list) :
                    X_test_session_list[i] =
                       <<TotalWeightTo(final_candidate_list[i]),
                         PopularityOf(final_candidate_list[i]),
                         Len(events),
                         Occurrences(final_candidate_list[i])>>
        /\ (events = <<10, 20, 10>> /\ co_visitation_map = ScenarioMap
            /\ global_popularity_counter = ScenarioPop) =>
              /\ dynamic_candidates = <<30, 40>>
              /\ X_test_session_list[CHOOSE i \in 1..Len(final_candidate_list) :
                                        final_candidate_list[i] = 30] = <<3, 10, 3, 0>>
        /\ outcome = "raised" => Len(FEATURE_NAMES) # N_FEATURES

\* C7 witness: the scenario of the specification, and a session whose history
\* is longer than the seed window with a candidate that gets weight from the
\* item outside the window.
C7_WitnessScenario ==
    /\ phase = "displayed"
    /\ events = <<10, 20, 10>>
    /\ co_visitation_map = ScenarioMap
    /\ global_popularity_counter = ScenarioPop
    /\ \E i \in 1..Len(final_candidate_list) :
          final_candidate_list[i] = 30 /\ X_test_session_list[i] = <<3, 10, 3, 0>>

C7_Witness ==
    /\ phase = "displayed"
    /\ Len(events) > N_ITEMS_FROM_HISTORY
    /\ \E i \in 1..Len(final_candidate_list) :
          /\ X_test_session_list[i][1] > 0
          /\ X_test_session_list[i][4] > 0
          /\ \E h \in Range(events) \ Range(LastN(events, N_ITEMS_FROM_HISTORY)) :
                WeightFromTo(h, final_candidate_list[i]) > 0

\* ------------------------------------------------ get_top_20_recs, directly
\* the score given with candidate aid in the call
ScoreOf(aid) == rk_scores[CHOOSE i \in 1..Len(rk_candidates) : rk_candidates[i] = aid]

\* how many of the returned entries come from the ranking
TopPortionLen == Min(TOP_N, Len(rk_candidates))

TopPortion == SubSeq(rk_top_20, 1, TopPortionLen)

\* C8: the list get_top_20_recs returns starts with the min(20, pool size)
\* highest-scored candidates in non-increasing score order, every candidate
\* placed there scoring at least as high as every candidate left out; when
\* that portion is shorter than 20 it is followed by the FallbackList items
\* not already present, in FallbackList order, until 20 are reached or the
\* FallbackList is exhausted.
C8_TopScoredThenFallback ==
    rk_called =>
        /\ Len(rk_top_20) >= TopPortionLen
        /\ NoDuplicates(TopPortion)
        /\ Range(TopPortion) \subseteq Range(rk_candidates)
        /\ \A i, j \in 1..TopPortionLen :
              i < j => ScoreOf(rk_top_20[i]) >= ScoreOf(rk_top_20[j])
        /\ \A c \in Range(rk_candidates) \ Range(TopPortion) :
              \A i \in 1..TopPortionLen : ScoreOf(rk_top_20[i]) >= ScoreOf(c)
        /\ rk_top_20 =
              TopPortion
              \o Take(SelectSeq(rk_fallback, LAMBDA f : f \notin Range(TopPortion)),
                      TOP_N - TopPortionLen)

\* C8 witness: a pool shorter than 20 with different scores, padded up to 20
\* from a FallbackList of which some items were already present and skipped.
C8_Witness ==
    /\ rk_called
    /\ rk_candidates # <<>>
    /\ Len(rk_candidates) < TOP_N
    /\ Len(rk_top_20) = TOP_N
    /\ \E i, j \in 1..Len(rk_scores) : rk_scores[i] # rk_scores[j]
    /\ \E k \in 1..Len(rk_fallback) :
          /\ rk_fallback[k] \in Range(rk_candidates)
          /\ \E m \in (k + 1)..Len(rk_fallback) :
                rk_fallback[m] = rk_top_20[Len(rk_top_20)]

\* C10: two candidates of equal score are ranked larger item id first wherever
\* they stand in the pool, and the returned list is the same for the pool (with
\* its scores) given in another order.
C10_TiesByLargerAid ==
    rk_called =>
        /\ \A i, j \in 1..TopPortionLen :
              (i < j /\ ScoreOf(rk_top_20[i]) = ScoreOf(rk_top_20[j]))
                 => rk_top_20[i] > rk_top_20[j]
        /\ rk_top_20 =
              get_top_20_recs(Reverse(rk_scores), Reverse(rk_candidates), rk_fallback)
        /\ \A k \in 1..(Len(rk_candidates) - 1) :
              rk_top_20 =
                 get_top_20_recs(
                    SubSeq(rk_scores, k + 1, Len(rk_scores)) \o SubSeq(rk_scores, 1, k),
                    SubSeq(rk_candidates, k + 1, Len(rk_candidates))
                       \o SubSeq(rk_candidates, 1, k),
                    rk_fallback)

\* C10 witness: more than 20 candidates, two of equal score of which the one
\* with the smaller item id comes first in the pool, both returned.
C10_Witness ==
    /\ rk_called
    /\ Len(rk_candidates) > TOP_N
    /\ \E i, j \in 1..Len(rk_candidates) :
          /\ i < j
          /\ rk_scores[i] = rk_scores[j]
          /\ rk_candidates[i] < rk_candidates[j]
          /\ {rk_candidates[i], rk_candidates[j]} \subseteq Range(rk_top_20)

\* ------------------------------------------------------- the shared assets
\* a step that leaves the three shared tables as they are
SharedAssetsKept ==
    /\ co_visitation_map' = co_visitation_map
    /\ global_popularity_counter' = global_popularity_counter
    /\ top_20_fallback' = top_20_fallback

\* C9: no step taken once the assets are loaded (a run_model_pipeline call on
\* an empty session, a non-empty one, one that hits the empty-pool path or a
\* scoring failure, or the redisplay that follows) changes the Co-occurrence
\* Index, the Popularity Table or the FallbackList.
C9_AssetsUnchanged ==
    [][(phase = "ready" \/ phase = "displayed") => SharedAssetsKept]_vars

\* C9 witness: a second call was made, on a session with an item the index
\* has no entry for and a candidate the popularity table has no entry for.
C9_Witness ==
    /\ phase = "displayed"
    /\ n_runs >= 2
    /\ \E h \in Range(events) : h \notin DOMAIN co_visitation_map
    /\ \E c \in Range(final_candidate_list) : c \notin DOMAIN global_popularity_counter

====
